---------------------------- MODULE Spec2Model ----------------------------
(* A model of bootmgr (src/src/main.rs): the boot menu driven by two input  *)
(* threads over one channel, main's BootNext write and reboot, main's loop  *)
(* over the firmware's variables, and Entry::new over a boot-entry buffer.  *)
(*                                                                          *)
(* Rust values are written as tuples: Option is <<"None">> or <<"Some", x>>,*)
(* MenuChoice is <<"Menu">> or <<"Entry", e>>, EzEvent is <<"South", b>>,   *)
(* <<"DirectionDown">>, ...  Vec indices are 0-based as in the source; a    *)
(* Vec v is the sequence whose element i is v[i + 1].                       *)
EXTENDS Integers, Sequences, FiniteSets, TLC

VARIABLES
    choices,          \* main: options, the decoded entries handed to menu()
    pc,               \* position of the main thread
    status,           \* "running" while the process lives, then the way it ended
    chosen,           \* menu: chosen
    pos,              \* menu: pos
    menu_items,       \* menu: menu_items (Default view rows)
    all_items,        \* menu: all_items (Advanced view rows)
    cur_choice,       \* menu: cur_choice, an Option<MenuChoice>
    what_to_display,  \* menu: what_to_display
    choice,           \* main: choice, the value menu() returned
    mode,             \* main: the first command-line argument, once read
    queue,            \* the channel: messages sent and not yet received
    rx_alive,         \* the Receiver exists (menu() has not returned)
    kbd,              \* kbd_input thread: "idle", "run", "dead"
    pad,              \* pad_input thread: "idle", "open", "run", "dead"
    nsent,            \* the number of events the two sources have sent
    trace,            \* history: the sends not yet received, per-source counts
    last_ev,          \* menu: the event rx.recv() returned last (line 227)
    bootNext,         \* the firmware's BootNext variable: <<>> when not set
    writes,           \* the manager.write calls made, in order
    reboots,          \* the number of reboot() calls made
    buf,              \* main: buf; Entry::new: the buffer it decodes
    dpc,              \* Entry::new: position of the decoder
    description,      \* Entry::new: description
    desc_end_offset,  \* Entry::new: desc_end_offset
    var,              \* Entry::new: var, the variable's name
    nodes,            \* Entry::new: the nodes node_iter() has yielded so far
    cursor,           \* Entry::new: the offset in buf of the iterator's next node
    outside,          \* Entry::new: a node was taken from outside the device path
    out_path,         \* Entry::new: out_path
    display_default,  \* Entry::new: display_default
    entry,            \* Entry::new: the Entry returned, <<"None">> before
    fwnames,          \* main: the variables get_var_names() yields
    vi,               \* main: the number of variables the loop has taken
    diags             \* main: the number of read errors printed (line 277)

menuVars == <<chosen, pos, menu_items, all_items, cur_choice, what_to_display>>
chanVars == <<queue, rx_alive, kbd, pad, nsent, trace, last_ev>>
fwVars == <<bootNext, writes, reboots>>
mainVars == <<choices, pc, status, choice, mode>>
newVars == <<var, nodes, cursor, outside, out_path, display_default, entry>>
enumVars == <<fwnames, vi, diags>>
decVars == <<buf, dpc, description, desc_end_offset, newVars, enumVars>>
vars == <<mainVars, menuVars, chanVars, fwVars, decVars>>

-----------------------------------------------------------------------------
(* Bounds of the model.                                                     *)

\* the longest entry list main hands to menu()
MaxEntries == 2
\* the number of events the terminal and the controller deliver in a run
MaxEvents == 4
\* the longest buffer body (the bytes after the 6-byte header) that is decoded
MaxBodyLen == 6
\* the longest device path, in nodes
MaxNodes == 3
\* the longest suffix of a variable name after "Boot"
MaxSuffixLen == 5
\* the number of variables the firmware enumerates
MaxVars == 2

-----------------------------------------------------------------------------
(* Values.                                                                  *)

None == <<"None">>
Some(x) == <<"Some", x>>

\* MenuChoice (lines 125-129)
Menu == <<"Menu">>
EntryChoice(e) == <<"Entry", e>>

\* EzEvent, as far as menu() tells its variants apart
South(val) == <<"South", val>>
DirectionDown == <<"DirectionDown">>
DirectionUp == <<"DirectionUp">>
North(val) == <<"North", val>>

\* slice::get: the element at a 0-based index, if there is one
Get(v, i) == IF i >= 0 /\ i < Len(v) THEN Some(v[i + 1]) ELSE None

\* the id of the i-th enumerated Boot variable; above 255 so that both bytes
\* of the id matter
VarId(i) == 255 + i

\* the four hexadecimal digits of an id, most significant first
Hex4(id) == <<(id \div 4096) % 16, (id \div 256) % 16, (id \div 16) % 16, id % 16>>

\* An Entry (lines 58-64) as main builds it for the i-th variable; the text
\* fields are opaque to menu() and main.
MkEntry(i, dd) ==
    [id |-> VarId(i),
     id_string |-> Hex4(VarId(i)),
     description |-> <<"OS", i>>,
     path |-> IF dd THEN <<"\\efi\\os\\grubx64.efi">> ELSE <<"\\efi\\boot\\bootx64.efi">>,
     display_default |-> dd]

\* the entry lists main may hand to menu(): up to MaxEntries entries in
\* enumeration order, each a default candidate or not
EntryLists ==
    UNION {{[i \in 1..n |-> MkEntry(i, f[i])] : f \in [1..n -> BOOLEAN]} : n \in 0..MaxEntries}

\* the bytes of an id, most significant first
to_be_bytes(id) == <<(id \div 256) % 256, id % 256>>

\* u16::to_le_bytes (line 287)
to_le_bytes(id) == <<id % 256, (id \div 256) % 256>>

-----------------------------------------------------------------------------
(* menu(), lines 161-262.                                                   *)

\* Default-view rows that leave no entry out
DefaultRowsUnfiltered(es) == [i \in 1..Len(es) |-> EntryChoice(es[i])]

\* lines 181-190: the Default-view rows before the sentinel is pushed
RECURSIVE DefaultRows(_)
DefaultRows(es) ==
    IF es = <<>> THEN <<>>
    ELSE LET rest == DefaultRows(SubSeq(es, 1, Len(es) - 1))
             e == es[Len(es)]
         IN IF e.display_default THEN Append(rest, EntryChoice(e)) ELSE rest

\* lines 181-190: all_items
AllRows(es) == [i \in 1..Len(es) |-> EntryChoice(es[i])]

\* a tracked value that starts as the last default candidate
LastDefault(es) ==
    IF DefaultRows(es) = <<>> THEN None ELSE Some(DefaultRows(es)[Len(DefaultRows(es))])

\* lines 178, 181-185: cur_choice after the loop over choices
FirstDefault(es) ==
    IF DefaultRows(es) = <<>> THEN None ELSE Some(DefaultRows(es)[1])

\* lines 195-198: cur_menu
cur_menu == IF what_to_display = "Default" THEN menu_items ELSE all_items

\* The history variable trace is kept to state the order of delivery: it is
\* None where no history is kept, and otherwise holds the sends not yet
\* received, in the order they were made, each with its source, its number
\* among the events of that source and the event, and the number of events
\* of each source that rx.recv() has returned.  The code has no such record.
NoHistory == [queued |-> <<>>, recv |-> [kbd |-> 0, pad |-> 0]]

\* the number of events of a source sent so far, by the history
SentBy(src) ==
    trace[2].recv[src] + Len(SelectSeq(trace[2].queued, LAMBDA m : m.src = src))

\* the history after src has sent ev
TraceSend(src, ev) ==
    IF trace = None THEN None
    ELSE Some([trace[2] EXCEPT
                  !.queued = Append(@, [src |-> src, n |-> SentBy(src) + 1, ev |-> ev])])

\* the history after rx.recv() has returned the oldest send
TraceRecv ==
    IF trace = None THEN None
    ELSE Some([queued |-> Tail(trace[2].queued),
               recv |-> [trace[2].recv EXCEPT ![Head(trace[2].queued).src] = @ + 1]])

\* a channel that hands out the newest message first
EnqueueFront(q, m) == <<m>> \o q

\* mpsc Sender::send on the channel's queue
Enqueue(q, m) == Append(q, m)

\* line 166: spawn the kbd_input thread; std::thread::spawn panics when the
\* system cannot start a thread, and the unwinding of menu() drops the
\* Receiver before the process ends
MenuSpawnKbd ==
    /\ pc = "menu_setup" /\ status = "running"
    /\ \/ kbd' = "run" /\ pc' = "menu_spawn_pad" /\ UNCHANGED rx_alive
       \/ pc' = "panic_spawn" /\ rx_alive' = FALSE /\ UNCHANGED kbd
    /\ UNCHANGED <<menuVars, choices, status, choice, mode, queue, pad, nsent, trace,
                   last_ev, fwVars, decVars>>

\* line 167: spawn the pad_input thread
MenuSpawnPad ==
    /\ pc = "menu_spawn_pad" /\ status = "running"
    /\ \/ pad' = "open" /\ pc' = "menu_terminal" /\ UNCHANGED rx_alive
       \/ pc' = "panic_spawn" /\ rx_alive' = FALSE /\ UNCHANGED pad
    /\ UNCHANGED <<menuVars, choices, status, choice, mode, queue, kbd, nsent, trace,
                   last_ev, fwVars, decVars>>

\* lines 170-172: the three terminal calls; when one fails menu() returns
\* the error, which drops the Receiver, and main has the error to return
MenuTerminal ==
    /\ pc = "menu_terminal" /\ status = "running"
    /\ \/ pc' = "menu_rows" /\ UNCHANGED rx_alive
       \/ pc' = "main_err" /\ rx_alive' = FALSE
    /\ UNCHANGED <<menuVars, choices, status, choice, mode, queue, kbd, pad, nsent,
                   trace, last_ev, fwVars, decVars>>

\* lines 174-192: the locals of menu() and the rows of the two views
MenuRows ==
    /\ pc = "menu_rows" /\ status = "running"
    /\ pc' = "menu_render"
    /\ menu_items' = Append(DefaultRows(choices), Menu)
    /\ all_items' = AllRows(choices)
    /\ cur_choice' = FirstDefault(choices)
    /\ UNCHANGED <<chosen, pos, what_to_display, choices, choice, mode, status,
                   chanVars, fwVars, decVars>>

\* lines 199-225: draw the rows and the marker; an output error is returned
\* from menu(), which drops the Receiver
MenuRender ==
    /\ pc = "menu_render" /\ status = "running"
    /\ \/ /\ pc' = "menu_recv" /\ UNCHANGED rx_alive
       \/ /\ pc' = "main_err" /\ rx_alive' = FALSE
    /\ UNCHANGED <<menuVars, choices, status, choice, mode, queue, kbd, pad, nsent,
                   trace, last_ev, fwVars, decVars>>

\* a confirm that ends the loop whatever is tracked
ConfirmEndsAlways(cur) == TRUE

\* line 237: the confirm that ends the loop
ConfirmEnds(cur) == cur # Some(Menu)

\* a move down that wraps to the first row after the last
OnDirectionDownWrap ==
    IF Get(cur_menu, pos + 1) # None
    THEN /\ pos' = pos + 1
         /\ cur_choice' = Some(Get(cur_menu, pos + 1)[2])
         /\ UNCHANGED <<chosen, what_to_display, rx_alive>>
    ELSE /\ pos' = 0
         /\ cur_choice' = Get(cur_menu, 0)
         /\ UNCHANGED <<chosen, what_to_display, rx_alive>>

\* lines 228-233
OnDirectionDown ==
    IF Get(cur_menu, pos + 1) # None
    THEN /\ pos' = pos + 1
         /\ cur_choice' = Some(Get(cur_menu, pos + 1)[2])
         /\ UNCHANGED <<chosen, what_to_display, rx_alive>>
    ELSE UNCHANGED <<pos, cur_choice, chosen, what_to_display, rx_alive>>

\* lines 244-252
OnDirectionUp ==
    IF pos > 0 /\ Get(cur_menu, pos - 1) # None
    THEN /\ pos' = pos - 1
         /\ cur_choice' = Some(Get(cur_menu, pos - 1)[2])
         /\ UNCHANGED <<chosen, what_to_display, rx_alive>>
    ELSE UNCHANGED <<pos, cur_choice, chosen, what_to_display, rx_alive>>

\* a confirm on the sentinel that toggles the view
OnSouthToggle(val) ==
    \/ /\ UNCHANGED rx_alive
       /\ IF val = TRUE
          THEN IF ConfirmEnds(cur_choice)
               THEN chosen' = TRUE /\ UNCHANGED <<pos, cur_choice, what_to_display>>
               ELSE /\ what_to_display' = IF what_to_display = "Default" THEN "Advanced" ELSE "Default"
                    /\ UNCHANGED <<pos, cur_choice, chosen>>
          ELSE UNCHANGED <<pos, cur_choice, chosen, what_to_display>>
    \/ /\ rx_alive' = FALSE
       /\ UNCHANGED <<pos, cur_choice, chosen, what_to_display>>

\* a confirm that does not look at its payload
OnSouthAnyPayload(val) ==
    \/ /\ UNCHANGED rx_alive
       /\ IF ConfirmEnds(cur_choice)
          THEN chosen' = TRUE /\ UNCHANGED <<pos, cur_choice, what_to_display>>
          ELSE what_to_display' = "Advanced" /\ UNCHANGED <<pos, cur_choice, chosen>>
    \/ /\ rx_alive' = FALSE
       /\ UNCHANGED <<pos, cur_choice, chosen, what_to_display>>

\* lines 234-243: println! (line 235) panics when stdout cannot be written,
\* before the payload is looked at, and the unwinding drops the Receiver
OnSouth(val) ==
    \/ /\ UNCHANGED rx_alive
       /\ IF val = TRUE
          THEN IF ConfirmEnds(cur_choice)
               THEN chosen' = TRUE /\ UNCHANGED <<pos, cur_choice, what_to_display>>
               ELSE what_to_display' = "Advanced" /\ UNCHANGED <<pos, cur_choice, chosen>>
          ELSE UNCHANGED <<pos, cur_choice, chosen, what_to_display>>
    \/ /\ rx_alive' = FALSE
       /\ UNCHANGED <<pos, cur_choice, chosen, what_to_display>>

\* lines 227-254: one received event, matched
Handle(ev) ==
    IF ev = DirectionDown THEN OnDirectionDown
    ELSE IF ev[1] = "South" THEN OnSouth(ev[2])
    ELSE IF ev = DirectionUp THEN OnDirectionUp
    ELSE UNCHANGED <<pos, cur_choice, chosen, what_to_display, rx_alive>>

\* line 227: rx.recv() returns the oldest message; lines 194, 255: the loop
\* goes round unless chosen; a panic in the match unwinds menu() and main
MenuRecv ==
    /\ pc = "menu_recv" /\ status = "running"
    /\ queue # <<>>
    /\ last_ev' = Some(Head(queue))
    /\ trace' = TraceRecv
    /\ queue' = Tail(queue)
    /\ Handle(Head(queue))
    /\ pc' = IF ~rx_alive' THEN "panic_println"
             ELSE IF chosen' THEN "menu_exit" ELSE "menu_render"
    /\ UNCHANGED <<menu_items, all_items, choices, status, choice, mode,
                   kbd, pad, nsent, fwVars, decVars>>

\* line 227: rx.recv() fails once the queue is empty and both Senders are
\* dropped; menu() returns the error, which drops the Receiver
MenuRecvDisconnected ==
    /\ pc = "menu_recv" /\ status = "running"
    /\ queue = <<>> /\ kbd = "dead" /\ pad = "dead"
    /\ pc' = "main_err" /\ rx_alive' = FALSE
    /\ UNCHANGED <<menuVars, choices, status, choice, mode, queue, kbd, pad, nsent,
                   trace, last_ev, fwVars, decVars>>

\* lines 257-261: restore the terminal and unwrap cur_choice; menu() is left
\* by its value, by the error of a terminal call or by the panic of the
\* unwrap, and each way drops the Receiver
MenuExit ==
    /\ pc = "menu_exit" /\ status = "running"
    /\ rx_alive' = FALSE
    /\ \/ IF cur_choice = None
          THEN pc' = "panic_unwrap" /\ UNCHANGED choice
          ELSE choice' = cur_choice[2] /\ pc' = "main_args"
       \/ \* lines 257-260: a terminal call fails
          pc' = "main_err" /\ UNCHANGED choice
    /\ UNCHANGED <<menuVars, choices, status, mode, queue, kbd, pad, nsent, trace,
                   last_ev, fwVars, decVars>>

-----------------------------------------------------------------------------
(* The input threads, lines 137-159.                                        *)

\* what event::read() may return: the three keys kbd_input maps, another key,
\* and an event that is no key event
TermEvents == {<<"Key", "Enter">>, <<"Key", "Down">>, <<"Key", "Up">>,
               <<"Key", "Esc">>, <<"Resize">>}

\* what the controller may report
PadEvents == {South(TRUE), South(FALSE), DirectionDown, DirectionUp, North(TRUE)}

\* lines 139-149: the event kbd_input sends for a terminal event, if any
KbdMap(e) ==
    IF e[1] = "Key"
    THEN IF e[2] = "Enter" THEN Some(South(TRUE))
         ELSE IF e[2] = "Down" THEN Some(DirectionDown)
         ELSE IF e[2] = "Up" THEN Some(DirectionUp)
         ELSE None
    ELSE None

\* event::read() (line 139) and get_event_blocking() (line 156) block until
\* the terminal or the controller has an event for them.  The input of a run
\* is the events the two devices deliver: the runs explored are those whose
\* input has at most MaxEvents events that are sent, from either device in any
\* order.  The channel of line 164 is unbounded, and so is the queue here.
InputLeft == nsent < MaxEvents

\* tx.send(ev).unwrap(): the event joins the queue; with the Receiver gone
\* send fails and the unwrap ends the sending thread
Send(src, ev) ==
    IF rx_alive
    THEN /\ queue' = Enqueue(queue, ev)
         /\ nsent' = nsent + 1
         /\ trace' = TraceSend(src, ev)
         /\ UNCHANGED <<kbd, pad>>
    ELSE /\ kbd' = IF src = "kbd" THEN "dead" ELSE kbd
         /\ pad' = IF src = "pad" THEN "dead" ELSE pad
         /\ UNCHANGED <<queue, nsent, trace>>

\* lines 138-150: one round of kbd_input's loop
KbdRead ==
    /\ kbd = "run" /\ status = "running"
    /\ \E e \in TermEvents :
         IF KbdMap(e) = None
         THEN UNCHANGED <<queue, nsent, trace, kbd, pad>>
         ELSE InputLeft /\ Send("kbd", KbdMap(e)[2])
    /\ UNCHANGED <<mainVars, menuVars, rx_alive, last_ev, fwVars, decVars>>

\* line 139: event::read() fails, the unwrap panics and the thread ends,
\* dropping its Sender; the process goes on
KbdFail ==
    /\ kbd = "run" /\ status = "running"
    /\ kbd' = "dead"
    /\ UNCHANGED <<mainVars, menuVars, queue, rx_alive, pad, nsent, trace, last_ev,
                   fwVars, decVars>>

\* line 154: RinputerHandle::open(), whose failure ends the thread
PadOpen ==
    /\ pad = "open" /\ status = "running"
    /\ pad' \in {"run", "dead"}
    /\ UNCHANGED <<mainVars, menuVars, queue, rx_alive, kbd, nsent, trace, last_ev,
                   fwVars, decVars>>

\* lines 155-158: one round of pad_input's loop
PadRead ==
    /\ pad = "run" /\ status = "running"
    /\ InputLeft
    /\ \E ev \in PadEvents : Send("pad", ev)
    /\ UNCHANGED <<mainVars, menuVars, rx_alive, last_ev, fwVars, decVars>>

\* line 156: get_event_blocking() fails and the unwrap ends the thread
PadFail ==
    /\ pad = "run" /\ status = "running"
    /\ pad' = "dead"
    /\ UNCHANGED <<mainVars, menuVars, queue, rx_alive, kbd, nsent, trace, last_ev,
                   fwVars, decVars>>

-----------------------------------------------------------------------------
(* main after menu(), lines 282-300.                                        *)

\* the first command-line argument; "asdfasdf" stands for none (line 283)
Args == {"actually-boot", "asdfasdf", "boot"}

\* line 283: read the argument, where std::env::args() panics on an argument
\* that is not valid Unicode; lines 284, 292-294: match on the choice
MainArgs ==
    /\ pc = "main_args" /\ status = "running"
    /\ \/ \E a \in Args :
            /\ mode' = Some(a)
            /\ IF a = "actually-boot"
               THEN IF choice[1] = "Entry"
                    THEN pc' = "main_write"
                    ELSE pc' = "panic_unreachable"
               ELSE pc' = "main_print"
       \/ pc' = "panic_args" /\ UNCHANGED mode
    /\ UNCHANGED <<choices, status, choice, menuVars, chanVars, fwVars, decVars>>

\* line 286: the attributes BootNext is written with
BootNextAttr == {"NON_VOLATILE", "BOOTSERVICE_ACCESS", "RUNTIME_ACCESS"}

\* lines 285-289: write BootNext; a failed write panics (expect)
MainWrite ==
    /\ pc = "main_write" /\ status = "running"
    /\ LET val == to_le_bytes(choice[2].id) IN
       \E ok \in BOOLEAN :
         /\ writes' = Append(writes, [name |-> "BootNext", attr |-> BootNextAttr,
                                      val |-> val, ok |-> ok])
         /\ IF ok
            THEN bootNext' = val /\ pc' = "main_reboot"
            ELSE UNCHANGED bootNext /\ pc' = "panic_write"
    /\ UNCHANGED <<choices, status, choice, mode, menuVars, chanVars, reboots, decVars>>

\* line 291: reboot(); it does not return when it succeeds, and main has its
\* error to return when it fails
MainReboot ==
    /\ pc = "main_reboot" /\ status = "running"
    /\ reboots' = reboots + 1
    /\ \/ pc' = "done" /\ status' = "rebooted"
       \/ pc' = "main_err" /\ UNCHANGED status
    /\ UNCHANGED <<choices, choice, mode, menuVars, chanVars, bootNext, writes, decVars>>

\* lines 296-297: the dry run prints the choice; println! panics when stdout
\* cannot be written
MainPrint ==
    /\ pc = "main_print" /\ status = "running"
    /\ pc' \in {"main_ok", "panic_println"}
    /\ UNCHANGED <<choices, status, choice, mode, menuVars, chanVars, fwVars, decVars>>

\* lines 282, 291: `?` returns the error from main; the runtime writes
\* "Error: ..." to stderr, a write that can wait while the input threads run,
\* and the process ends with exit code 1
MainErr ==
    /\ pc = "main_err" /\ status = "running"
    /\ pc' = "done" /\ status' = "exit_err"
    /\ UNCHANGED <<choices, choice, mode, menuVars, chanVars, fwVars, decVars>>

\* line 300: main returns Ok(()) and the process ends with exit code 0
MainOk ==
    /\ pc = "main_ok" /\ status = "running"
    /\ pc' = "done" /\ status' = "exit_ok"
    /\ UNCHANGED <<choices, choice, mode, menuVars, chanVars, fwVars, decVars>>

\* the positions of the main thread after a panic, each named as the way the
\* process ends by it
Panicked == {"panic_spawn", "panic_println", "panic_unwrap", "panic_args",
             "panic_write", "panic_unreachable"}

\* a panic of the main thread (lines 166, 167, 235, 261, 283, 289, 293, 296,
\* 297) has unwound main: the process ends, and the input threads ran until
\* then
MainPanic ==
    /\ pc \in Panicked /\ status = "running"
    /\ pc' = "done" /\ status' = pc
    /\ UNCHANGED <<choices, choice, mode, menuVars, chanVars, fwVars, decVars>>

-----------------------------------------------------------------------------
(* Entry::new, lines 67-72, and char16_to_string, lines 32-55.              *)

\* (32+16)/8, the bytes of the attributes and the path-list length (line 68)
HeaderLen == 6

\* the byte values the buffers of the model are made of: zero, 'A', and the
\* high bytes of a high and of a low surrogate
BodyBytes == {0, 65, 216, 220}

\* the sequences over S of length n
SeqsOfLen(S, n) == [1..n -> S]

\* the sequences over S of length at most n
SeqsUpTo(S, n) == UNION {SeqsOfLen(S, k) : k \in 0..n}

\* &buf[from..]: the bytes from a 0-based offset on (from <= Len(b))
SliceFrom(b, from) == SubSeq(b, from + 1, Len(b))

\* a loop that takes the first byte of a pair as the high byte
RECURSIVE ScanUnitsHighFirst(_, _, _)
ScanUnitsHighFirst(b, k, out) ==
    LET i == 2 * k IN
    IF 2 * k <= Len(b)
    THEN LET tmp == b[2 * k - 1] * 256 + b[2 * k] IN
         IF tmp = 0 THEN [out |-> out, i |-> i]
         ELSE ScanUnitsHighFirst(b, k + 1, Append(out, tmp))
    ELSE [out |-> out, i |-> i]

\* lines 37-49: the loop of char16_to_string from the k-th pair of bytes on;
\* i grows by 2 in every round, the round that finds no pair included
RECURSIVE ScanUnits(_, _, _)
ScanUnits(b, k, out) ==
    LET i == 2 * k IN
    IF 2 * k <= Len(b)
    THEN LET tmp == b[2 * k] * 256 + b[2 * k - 1] IN
         IF tmp = 0 THEN [out |-> out, i |-> i]
         ELSE ScanUnits(b, k + 1, Append(out, tmp))
    ELSE [out |-> out, i |-> i]

IsHighSurrogate(u) == u >= 55296 /\ u <= 56319
IsLowSurrogate(u) == u >= 56320 /\ u <= 57343

\* std::char::decode_utf16 with lines 52-53: an unpaired surrogate and a
\* character outside ASCII both become a space; a surrogate pair is one
\* character
RECURSIVE DecodeUnits(_)
DecodeUnits(us) ==
    IF us = <<>> THEN <<>>
    ELSE LET u == Head(us) IN
         IF IsHighSurrogate(u) /\ Len(us) >= 2 /\ IsLowSurrogate(us[2])
         THEN <<32>> \o DecodeUnits(Tail(Tail(us)))
         ELSE <<(IF u < 128 THEN u ELSE 32)>> \o DecodeUnits(Tail(us))

\* char16_to_string: the description, as code points, and the byte count
char16_to_string(b) ==
    LET r == ScanUnits(b, 1, <<>>) IN <<DecodeUnits(r.out), r.i>>

\* lines 68-69: slice off the header, decode the description; the slice
\* panics on a buffer shorter than the header
NewDescription ==
    /\ dpc = "start"
    /\ IF Len(buf) < HeaderLen
       THEN dpc' = "panic" /\ UNCHANGED <<description, desc_end_offset>>
       ELSE LET r == char16_to_string(SliceFrom(buf, HeaderLen)) IN
            /\ description' = r[1]
            /\ desc_end_offset' = HeaderLen + r[2]
            /\ dpc' = "described"
    /\ UNCHANGED <<buf, newVars, enumVars, mainVars, menuVars, chanVars, fwVars>>

\* lines 70-76: slice the buffer at desc_end_offset for the device path,
\* which panics when the offset is past the end of the buffer; the slice is
\* taken as a DevicePath and node_iter() starts at its first byte
NewDevicePath ==
    /\ dpc = "described"
    /\ dpc' = IF desc_end_offset > Len(buf) THEN "panic" ELSE "device_path"
    /\ cursor' = desc_end_offset /\ nodes' = <<>> /\ outside' = FALSE
    /\ out_path' = <<>> /\ display_default' = FALSE
    /\ UNCHANGED <<buf, description, desc_end_offset, var, entry, enumVars,
                   mainVars, menuVars, chanVars, fwVars>>

-----------------------------------------------------------------------------
(* Entry::new, lines 76-110. The text of a path is a sequence of code       *)
(* points; a device path node is <<type, sub-type, data bytes>>.            *)

\* the characters the texts of the model are written with, by code: the
\* digits from 48, the capital letters from 65, the small letters from 97
Digits == <<"0", "1", "2", "3", "4", "5", "6", "7", "8", "9">>
Upper == <<"A", "B", "C", "D", "E", "F", "G", "H", "I", "J", "K", "L", "M",
           "N", "O", "P", "Q", "R", "S", "T", "U", "V", "W", "X", "Y", "Z">>
Lower == <<"a", "b", "c", "d", "e", "f", "g", "h", "i", "j", "k", "l", "m",
           "n", "o", "p", "q", "r", "s", "t", "u", "v", "w", "x", "y", "z">>

\* the code of a character
Code(c) ==
    CASE \E i \in 1..10 : Digits[i] = c -> 47 + (CHOOSE i \in 1..10 : Digits[i] = c)
      [] \E i \in 1..26 : Upper[i] = c -> 64 + (CHOOSE i \in 1..26 : Upper[i] = c)
      [] \E i \in 1..26 : Lower[i] = c -> 96 + (CHOOSE i \in 1..26 : Lower[i] = c)
      [] c = "\\" -> 92
      [] c = "." -> 46
      [] c = "(" -> 40
      [] c = ")" -> 41
      [] c = "_" -> 95

\* the codes of a text
Codes(t) == [i \in 1..Len(t) |-> Code(t[i])]

\* the header of the node at the 0-based offset c of b: type, sub-type and
\* length (two bytes, low byte first)
NodeType(b, c) == b[c + 1]
NodeSubType(b, c) == b[c + 2]
NodeLength(b, c) == b[c + 3] + 256 * b[c + 4]

\* the header of the node at c lies within b
HeaderInside(b, c) == c + 4 <= Len(b)

\* is_end_entire: type END (0x7f) with sub-type END_ENTIRE (0xff), where
\* node_iter() stops without yielding the node
IsEndEntire(b, c) == NodeType(b, c) = 127 /\ NodeSubType(b, c) = 255

\* the node at c, its data included, lies within b
NodeInside(b, c) ==
    /\ HeaderInside(b, c)
    /\ NodeLength(b, c) >= 4
    /\ c + NodeLength(b, c) <= Len(b)

\* the node at c
NodeAt(b, c) == <<NodeType(b, c), NodeSubType(b, c), SubSeq(b, c + 5, c + NodeLength(b, c))>>

\* node_iter() does not check the slice: a header past its end, a length
\* below the 4 bytes of a header or data past the end make the iterator read
\* memory that is not the device path
ReadsOutside(b, c) ==
    IF HeaderInside(b, c) THEN ~IsEndEntire(b, c) /\ ~NodeInside(b, c) ELSE TRUE

\* the iterator is at the end node
AtEnd(b, c) == IF HeaderInside(b, c) THEN IsEndEntire(b, c) ELSE FALSE

\* line 77: as_file_path_media_device_path(), type MEDIA (4) with sub-type
\* MEDIA_FILE_PATH (4)
as_file_path_media_device_path(node) == node[1] = 4 /\ node[2] = 4

\* line 78: path_name(), the data as 16-bit units, low byte first
path_name(node) ==
    [k \in 1..(Len(node[3]) \div 2) |-> node[3][2 * k - 1] + 256 * node[3][2 * k]]

\* line 78: to_cstring16(): the units must end with a zero unit, hold no
\* other zero unit and no surrogate; the text is the units before the zero
to_cstring16(units) ==
    IF units = <<>> \/ units[Len(units)] # 0 THEN None
    ELSE IF \E k \in 1..(Len(units) - 1) :
                units[k] = 0 \/ IsHighSurrogate(units[k]) \/ IsLowSurrogate(units[k])
    THEN None
    ELSE Some(SubSeq(units, 1, Len(units) - 1))

\* core::unicode::conversions::to_lower, which char::to_lowercase and
\* str::to_lowercase call: the characters of the Basic Multilingual Plane
\* whose lowercase is one other character, as runs <<first, last, step,
\* difference>> (Unicode 17.0).  A path name is 16-bit units without
\* surrogates, so no other character can be in it.
LowercaseRuns ==
    {<<65, 90, 1, 32>>, <<192, 214, 1, 32>>, <<216, 222, 1, 32>>,
     <<256, 302, 2, 1>>, <<306, 310, 2, 1>>, <<313, 327, 2, 1>>,
     <<330, 374, 2, 1>>, <<376, 376, 1, -121>>, <<377, 381, 2, 1>>,
     <<385, 385, 1, 210>>, <<386, 388, 2, 1>>, <<390, 390, 1, 206>>,
     <<391, 391, 1, 1>>, <<393, 394, 1, 205>>, <<395, 395, 1, 1>>,
     <<398, 398, 1, 79>>, <<399, 399, 1, 202>>, <<400, 400, 1, 203>>,
     <<401, 401, 1, 1>>, <<403, 403, 1, 205>>, <<404, 404, 1, 207>>,
     <<406, 406, 1, 211>>, <<407, 407, 1, 209>>, <<408, 408, 1, 1>>,
     <<412, 412, 1, 211>>, <<413, 413, 1, 213>>, <<415, 415, 1, 214>>,
     <<416, 420, 2, 1>>, <<422, 422, 1, 218>>, <<423, 423, 1, 1>>,
     <<425, 425, 1, 218>>, <<428, 428, 1, 1>>, <<430, 430, 1, 218>>,
     <<431, 431, 1, 1>>, <<433, 434, 1, 217>>, <<435, 437, 2, 1>>,
     <<439, 439, 1, 219>>, <<440, 440, 1, 1>>, <<444, 444, 1, 1>>,
     <<452, 452, 1, 2>>, <<453, 453, 1, 1>>, <<455, 455, 1, 2>>,
     <<456, 456, 1, 1>>, <<458, 458, 1, 2>>, <<459, 475, 2, 1>>,
     <<478, 494, 2, 1>>, <<497, 497, 1, 2>>, <<498, 500, 2, 1>>,
     <<502, 502, 1, -97>>, <<503, 503, 1, -56>>, <<504, 542, 2, 1>>,
     <<544, 544, 1, -130>>, <<546, 562, 2, 1>>, <<570, 570, 1, 10795>>,
     <<571, 571, 1, 1>>, <<573, 573, 1, -163>>, <<574, 574, 1, 10792>>,
     <<577, 577, 1, 1>>, <<579, 579, 1, -195>>, <<580, 580, 1, 69>>,
     <<581, 581, 1, 71>>, <<582, 590, 2, 1>>, <<880, 882, 2, 1>>,
     <<886, 886, 1, 1>>, <<895, 895, 1, 116>>, <<902, 902, 1, 38>>,
     <<904, 906, 1, 37>>, <<908, 908, 1, 64>>, <<910, 911, 1, 63>>,
     <<913, 929, 1, 32>>, <<931, 939, 1, 32>>, <<975, 975, 1, 8>>,
     <<984, 1006, 2, 1>>, <<1012, 1012, 1, -60>>, <<1015, 1015, 1, 1>>,
     <<1017, 1017, 1, -7>>, <<1018, 1018, 1, 1>>, <<1021, 1023, 1, -130>>,
     <<1024, 1039, 1, 80>>, <<1040, 1071, 1, 32>>, <<1120, 1152, 2, 1>>,
     <<1162, 1214, 2, 1>>, <<1216, 1216, 1, 15>>, <<1217, 1229, 2, 1>>,
     <<1232, 1326, 2, 1>>, <<1329, 1366, 1, 48>>, <<4256, 4293, 1, 7264>>,
     <<4295, 4295, 1, 7264>>, <<4301, 4301, 1, 7264>>,
     <<5024, 5103, 1, 38864>>, <<5104, 5109, 1, 8>>, <<7305, 7305, 1, 1>>,
     <<7312, 7354, 1, -3008>>, <<7357, 7359, 1, -3008>>,
     <<7680, 7828, 2, 1>>, <<7838, 7838, 1, -7615>>, <<7840, 7934, 2, 1>>,
     <<7944, 7951, 1, -8>>, <<7960, 7965, 1, -8>>, <<7976, 7983, 1, -8>>,
     <<7992, 7999, 1, -8>>, <<8008, 8013, 1, -8>>, <<8025, 8031, 2, -8>>,
     <<8040, 8047, 1, -8>>, <<8072, 8079, 1, -8>>, <<8088, 8095, 1, -8>>,
     <<8104, 8111, 1, -8>>, <<8120, 8121, 1, -8>>, <<8122, 8123, 1, -74>>,
     <<8124, 8124, 1, -9>>, <<8136, 8139, 1, -86>>, <<8140, 8140, 1, -9>>,
     <<8152, 8153, 1, -8>>, <<8154, 8155, 1, -100>>, <<8168, 8169, 1, -8>>,
     <<8170, 8171, 1, -112>>, <<8172, 8172, 1, -7>>, <<8184, 8185, 1, -128>>,
     <<8186, 8187, 1, -126>>, <<8188, 8188, 1, -9>>,
     <<8486, 8486, 1, -7517>>, <<8490, 8490, 1, -8383>>,
     <<8491, 8491, 1, -8262>>, <<8498, 8498, 1, 28>>, <<8544, 8559, 1, 16>>,
     <<8579, 8579, 1, 1>>, <<9398, 9423, 1, 26>>, <<11264, 11311, 1, 48>>,
     <<11360, 11360, 1, 1>>, <<11362, 11362, 1, -10743>>,
     <<11363, 11363, 1, -3814>>, <<11364, 11364, 1, -10727>>,
     <<11367, 11371, 2, 1>>, <<11373, 11373, 1, -10780>>,
     <<11374, 11374, 1, -10749>>, <<11375, 11375, 1, -10783>>,
     <<11376, 11376, 1, -10782>>, <<11378, 11378, 1, 1>>,
     <<11381, 11381, 1, 1>>, <<11390, 11391, 1, -10815>>,
     <<11392, 11490, 2, 1>>, <<11499, 11501, 2, 1>>, <<11506, 11506, 1, 1>>,
     <<42560, 42604, 2, 1>>, <<42624, 42650, 2, 1>>, <<42786, 42798, 2, 1>>,
     <<42802, 42862, 2, 1>>, <<42873, 42875, 2, 1>>,
     <<42877, 42877, 1, -35332>>, <<42878, 42886, 2, 1>>,
     <<42891, 42891, 1, 1>>, <<42893, 42893, 1, -42280>>,
     <<42896, 42898, 2, 1>>, <<42902, 42920, 2, 1>>,
     <<42922, 42922, 1, -42308>>, <<42923, 42923, 1, -42319>>,
     <<42924, 42924, 1, -42315>>, <<42925, 42925, 1, -42305>>,
     <<42926, 42926, 1, -42308>>, <<42928, 42928, 1, -42258>>,
     <<42929, 42929, 1, -42282>>, <<42930, 42930, 1, -42261>>,
     <<42931, 42931, 1, 928>>, <<42932, 42946, 2, 1>>,
     <<42948, 42948, 1, -48>>, <<42949, 42949, 1, -42307>>,
     <<42950, 42950, 1, -35384>>, <<42951, 42953, 2, 1>>,
     <<42955, 42955, 1, -42343>>, <<42956, 42970, 2, 1>>,
     <<42972, 42972, 1, -42561>>, <<42997, 42997, 1, 1>>,
     <<65313, 65338, 1, 32>>}

\* conversions::to_lower(c): the lowercase of one character, as characters;
\* U+0130 is the one character of the table with two
to_lower(c) ==
    IF c < 128 THEN (IF c >= 65 /\ c <= 90 THEN <<c + 32>> ELSE <<c>>)
    ELSE IF c = 304 THEN <<105, 775>>
    ELSE LET r == {x \in LowercaseRuns :
                       c >= x[1] /\ c <= x[2] /\ (c - x[1]) % x[3] = 0}
         IN IF r = {} THEN <<c>> ELSE <<c + (CHOOSE x \in r : TRUE)[4]>>

\* core::unicode::Case_Ignorable on the Basic Multilingual Plane, as ranges
\* <<first, last>>
CaseIgnorableRanges ==
    {<<39, 39>>, <<46, 46>>, <<58, 58>>, <<94, 94>>, <<96, 96>>,
     <<168, 168>>, <<173, 173>>, <<175, 175>>, <<180, 180>>, <<183, 184>>,
     <<688, 879>>, <<884, 885>>, <<890, 890>>, <<900, 901>>, <<903, 903>>,
     <<1155, 1161>>, <<1369, 1369>>, <<1375, 1375>>, <<1425, 1469>>,
     <<1471, 1471>>, <<1473, 1474>>, <<1476, 1477>>, <<1479, 1479>>,
     <<1524, 1524>>, <<1536, 1541>>, <<1552, 1562>>, <<1564, 1564>>,
     <<1600, 1600>>, <<1611, 1631>>, <<1648, 1648>>, <<1750, 1757>>,
     <<1759, 1768>>, <<1770, 1773>>, <<1807, 1807>>, <<1809, 1809>>,
     <<1840, 1866>>, <<1958, 1968>>, <<2027, 2037>>, <<2042, 2042>>,
     <<2045, 2045>>, <<2070, 2093>>, <<2137, 2139>>, <<2184, 2184>>,
     <<2192, 2193>>, <<2199, 2207>>, <<2249, 2306>>, <<2362, 2362>>,
     <<2364, 2364>>, <<2369, 2376>>, <<2381, 2381>>, <<2385, 2391>>,
     <<2402, 2403>>, <<2417, 2417>>, <<2433, 2433>>, <<2492, 2492>>,
     <<2497, 2500>>, <<2509, 2509>>, <<2530, 2531>>, <<2558, 2558>>,
     <<2561, 2562>>, <<2620, 2620>>, <<2625, 2626>>, <<2631, 2632>>,
     <<2635, 2637>>, <<2641, 2641>>, <<2672, 2673>>, <<2677, 2677>>,
     <<2689, 2690>>, <<2748, 2748>>, <<2753, 2757>>, <<2759, 2760>>,
     <<2765, 2765>>, <<2786, 2787>>, <<2810, 2815>>, <<2817, 2817>>,
     <<2876, 2876>>, <<2879, 2879>>, <<2881, 2884>>, <<2893, 2893>>,
     <<2901, 2902>>, <<2914, 2915>>, <<2946, 2946>>, <<3008, 3008>>,
     <<3021, 3021>>, <<3072, 3072>>, <<3076, 3076>>, <<3132, 3132>>,
     <<3134, 3136>>, <<3142, 3144>>, <<3146, 3149>>, <<3157, 3158>>,
     <<3170, 3171>>, <<3201, 3201>>, <<3260, 3260>>, <<3263, 3263>>,
     <<3270, 3270>>, <<3276, 3277>>, <<3298, 3299>>, <<3328, 3329>>,
     <<3387, 3388>>, <<3393, 3396>>, <<3405, 3405>>, <<3426, 3427>>,
     <<3457, 3457>>, <<3530, 3530>>, <<3538, 3540>>, <<3542, 3542>>,
     <<3633, 3633>>, <<3636, 3642>>, <<3654, 3662>>, <<3761, 3761>>,
     <<3764, 3772>>, <<3782, 3782>>, <<3784, 3790>>, <<3864, 3865>>,
     <<3893, 3893>>, <<3895, 3895>>, <<3897, 3897>>, <<3953, 3966>>,
     <<3968, 3972>>, <<3974, 3975>>, <<3981, 3991>>, <<3993, 4028>>,
     <<4038, 4038>>, <<4141, 4144>>, <<4146, 4151>>, <<4153, 4154>>,
     <<4157, 4158>>, <<4184, 4185>>, <<4190, 4192>>, <<4209, 4212>>,
     <<4226, 4226>>, <<4229, 4230>>, <<4237, 4237>>, <<4253, 4253>>,
     <<4348, 4348>>, <<4957, 4959>>, <<5906, 5908>>, <<5938, 5939>>,
     <<5970, 5971>>, <<6002, 6003>>, <<6068, 6069>>, <<6071, 6077>>,
     <<6086, 6086>>, <<6089, 6099>>, <<6103, 6103>>, <<6109, 6109>>,
     <<6155, 6159>>, <<6211, 6211>>, <<6277, 6278>>, <<6313, 6313>>,
     <<6432, 6434>>, <<6439, 6440>>, <<6450, 6450>>, <<6457, 6459>>,
     <<6679, 6680>>, <<6683, 6683>>, <<6742, 6742>>, <<6744, 6750>>,
     <<6752, 6752>>, <<6754, 6754>>, <<6757, 6764>>, <<6771, 6780>>,
     <<6783, 6783>>, <<6823, 6823>>, <<6832, 6877>>, <<6880, 6891>>,
     <<6912, 6915>>, <<6964, 6964>>, <<6966, 6970>>, <<6972, 6972>>,
     <<6978, 6978>>, <<7019, 7027>>, <<7040, 7041>>, <<7074, 7077>>,
     <<7080, 7081>>, <<7083, 7085>>, <<7142, 7142>>, <<7144, 7145>>,
     <<7149, 7149>>, <<7151, 7153>>, <<7212, 7219>>, <<7222, 7223>>,
     <<7288, 7293>>, <<7376, 7378>>, <<7380, 7392>>, <<7394, 7400>>,
     <<7405, 7405>>, <<7412, 7412>>, <<7416, 7417>>, <<7468, 7530>>,
     <<7544, 7544>>, <<7579, 7679>>, <<8125, 8125>>, <<8127, 8129>>,
     <<8141, 8143>>, <<8157, 8159>>, <<8173, 8175>>, <<8189, 8190>>,
     <<8203, 8207>>, <<8216, 8217>>, <<8228, 8228>>, <<8231, 8231>>,
     <<8234, 8238>>, <<8288, 8292>>, <<8294, 8303>>, <<8305, 8305>>,
     <<8319, 8319>>, <<8336, 8348>>, <<8400, 8432>>, <<11388, 11389>>,
     <<11503, 11505>>, <<11631, 11631>>, <<11647, 11647>>, <<11744, 11775>>,
     <<11823, 11823>>, <<12293, 12293>>, <<12330, 12333>>, <<12337, 12341>>,
     <<12347, 12347>>, <<12441, 12446>>, <<12540, 12542>>, <<40981, 40981>>,
     <<42232, 42237>>, <<42508, 42508>>, <<42607, 42610>>, <<42612, 42621>>,
     <<42623, 42623>>, <<42652, 42655>>, <<42736, 42737>>, <<42752, 42785>>,
     <<42864, 42864>>, <<42888, 42890>>, <<42993, 42996>>, <<43000, 43001>>,
     <<43010, 43010>>, <<43014, 43014>>, <<43019, 43019>>, <<43045, 43046>>,
     <<43052, 43052>>, <<43204, 43205>>, <<43232, 43249>>, <<43263, 43263>>,
     <<43302, 43309>>, <<43335, 43345>>, <<43392, 43394>>, <<43443, 43443>>,
     <<43446, 43449>>, <<43452, 43453>>, <<43471, 43471>>, <<43493, 43494>>,
     <<43561, 43566>>, <<43569, 43570>>, <<43573, 43574>>, <<43587, 43587>>,
     <<43596, 43596>>, <<43632, 43632>>, <<43644, 43644>>, <<43696, 43696>>,
     <<43698, 43700>>, <<43703, 43704>>, <<43710, 43711>>, <<43713, 43713>>,
     <<43741, 43741>>, <<43756, 43757>>, <<43763, 43764>>, <<43766, 43766>>,
     <<43867, 43871>>, <<43881, 43883>>, <<44005, 44005>>, <<44008, 44008>>,
     <<44013, 44013>>, <<64286, 64286>>, <<64434, 64450>>, <<65024, 65039>>,
     <<65043, 65043>>, <<65056, 65071>>, <<65106, 65106>>, <<65109, 65109>>,
     <<65279, 65279>>, <<65287, 65287>>, <<65294, 65294>>, <<65306, 65306>>,
     <<65342, 65342>>, <<65344, 65344>>, <<65392, 65392>>, <<65438, 65439>>,
     <<65507, 65507>>, <<65529, 65531>>}

Case_Ignorable(c) == \E x \in CaseIgnorableRanges : c >= x[1] /\ c <= x[2]

\* core::unicode::Cased on the Basic Multilingual Plane, as ranges, for the
\* characters that are not Case_Ignorable: it is asked about no other
CasedRanges ==
    {<<65, 90>>, <<97, 122>>, <<170, 170>>, <<181, 181>>, <<186, 186>>,
     <<192, 214>>, <<216, 246>>, <<248, 442>>, <<444, 447>>, <<452, 659>>,
     <<662, 687>>, <<880, 883>>, <<886, 887>>, <<891, 893>>, <<895, 895>>,
     <<902, 902>>, <<904, 906>>, <<908, 908>>, <<910, 929>>, <<931, 1013>>,
     <<1015, 1153>>, <<1162, 1327>>, <<1329, 1366>>, <<1376, 1416>>,
     <<4256, 4293>>, <<4295, 4295>>, <<4301, 4301>>, <<4304, 4346>>,
     <<4349, 4351>>, <<5024, 5109>>, <<5112, 5117>>, <<7296, 7306>>,
     <<7312, 7354>>, <<7357, 7359>>, <<7424, 7467>>, <<7531, 7543>>,
     <<7545, 7578>>, <<7680, 7957>>, <<7960, 7965>>, <<7968, 8005>>,
     <<8008, 8013>>, <<8016, 8023>>, <<8025, 8025>>, <<8027, 8027>>,
     <<8029, 8029>>, <<8031, 8061>>, <<8064, 8116>>, <<8118, 8124>>,
     <<8126, 8126>>, <<8130, 8132>>, <<8134, 8140>>, <<8144, 8147>>,
     <<8150, 8155>>, <<8160, 8172>>, <<8178, 8180>>, <<8182, 8188>>,
     <<8450, 8450>>, <<8455, 8455>>, <<8458, 8467>>, <<8469, 8469>>,
     <<8473, 8477>>, <<8484, 8484>>, <<8486, 8486>>, <<8488, 8488>>,
     <<8490, 8493>>, <<8495, 8500>>, <<8505, 8505>>, <<8508, 8511>>,
     <<8517, 8521>>, <<8526, 8526>>, <<8544, 8575>>, <<8579, 8580>>,
     <<9398, 9449>>, <<11264, 11387>>, <<11390, 11492>>, <<11499, 11502>>,
     <<11506, 11507>>, <<11520, 11557>>, <<11559, 11559>>, <<11565, 11565>>,
     <<42560, 42605>>, <<42624, 42651>>, <<42786, 42863>>, <<42865, 42887>>,
     <<42891, 42894>>, <<42896, 42972>>, <<42997, 42998>>, <<43002, 43002>>,
     <<43824, 43866>>, <<43872, 43880>>, <<43888, 43967>>, <<64256, 64262>>,
     <<64275, 64279>>, <<65313, 65338>>, <<65345, 65370>>}

Cased(c) == \E x \in CasedRanges : c >= x[1] /\ c <= x[2]

\* str::to_lowercase, case_ignorable_then_cased(iter): the first character of
\* iter that is not Case_Ignorable exists and is Cased
case_ignorable_then_cased(t) ==
    LET rest == {k \in 1..Len(t) : ~Case_Ignorable(t[k])}
    IN IF rest = {} THEN FALSE
       ELSE Cased(t[CHOOSE k \in rest : \A j \in rest : k <= j])

\* a sequence back to front: chars().rev()
Reversed(t) == [k \in 1..Len(t) |-> t[Len(t) + 1 - k]]

\* str::to_lowercase, map_uppercase_sigma: a capital sigma (U+03A3) at
\* position i becomes the final sigma (U+03C2) at the end of a word and the
\* small sigma (U+03C3) elsewhere
map_uppercase_sigma(t, i) ==
    IF /\ case_ignorable_then_cased(Reversed(SubSeq(t, 1, i - 1)))
       /\ ~case_ignorable_then_cased(SubSeq(t, i + 1, Len(t)))
    THEN <<962>> ELSE <<963>>

\* str::to_lowercase: the characters from position i on, lowercased
RECURSIVE LowercaseFrom(_, _)
LowercaseFrom(t, i) ==
    IF i > Len(t) THEN <<>>
    ELSE (IF t[i] = 931 THEN map_uppercase_sigma(t, i) ELSE to_lower(t[i]))
         \o LowercaseFrom(t, i + 1)

\* str::to_lowercase (line 79)
to_lowercase(t) == LowercaseFrom(t, 1)

\* str::contains (lines 82-84)
contains(t, pat) ==
    \E i \in 0..(Len(t) - Len(pat)) : SubSeq(t, i + 1, i + Len(pat)) = pat

\* the three patterns of lines 82-84
MarkerX64 == Codes(<<"\\", "e", "f", "i", "\\", "b", "o", "o", "t", "\\", "b", "o", "o", "t", "x", "6", "4", ".", "e", "f", "i">>)
MarkerIa == Codes(<<"\\", "e", "f", "i", "\\", "b", "o", "o", "t", "\\", "b", "o", "o", "t", "i", "a", ".", "e", "f", "i">>)
MarkerAa64 == Codes(<<"\\", "e", "f", "i", "\\", "b", "o", "o", "t", "\\", "b", "o", "o", "t", "a", "a", "6", "4", ".", "e", "f", "i">>)

\* lines 82-84: the test for a fallback loader
IsFallback(lowercase) ==
    \/ contains(lowercase, MarkerX64)
    \/ contains(lowercase, MarkerIa)
    \/ contains(lowercase, MarkerAa64)

\* the decimal digits of a number, as code points
RECURSIVE DecimalText(_)
DecimalText(n) ==
    IF n < 10 THEN <<48 + n>> ELSE DecimalText(n \div 10) \o <<48 + (n % 10)>>

\* line 92: format!("{:?}", node.device_type()): the name of a known device
\* type, DeviceType(n) for another
DebugText(ty) ==
    CASE ty = 1 -> Codes(<<"H", "A", "R", "D", "W", "A", "R", "E">>)
      [] ty = 2 -> Codes(<<"A", "C", "P", "I">>)
      [] ty = 3 -> Codes(<<"M", "E", "S", "S", "A", "G", "I", "N", "G">>)
      [] ty = 4 -> Codes(<<"M", "E", "D", "I", "A">>)
      [] ty = 5 -> Codes(<<"B", "I", "O", "S", "_", "B", "O", "O", "T", "_", "S", "P", "E", "C">>)
      [] ty = 127 -> Codes(<<"E", "N", "D">>)
      [] OTHER -> Codes(<<"D", "e", "v", "i", "c", "e", "T", "y", "p", "e", "(">>) \o DecimalText(ty) \o Codes(<<")">>)

\* a loop body in which a file-path node cannot turn display_default back
\* to true
LoopBodySticky(node) ==
    IF as_file_path_media_device_path(node)
    THEN IF to_cstring16(path_name(node)) = None
         THEN dpc' = "panic" /\ UNCHANGED <<out_path, display_default>>
         ELSE LET lowercase == to_lowercase(to_cstring16(path_name(node))[2]) IN
              /\ display_default' =
                    IF ~display_default /\ \E k \in 1..Len(nodes) : as_file_path_media_device_path(nodes[k])
                    THEN FALSE ELSE ~IsFallback(lowercase)
              /\ out_path' = Append(out_path, lowercase)
              /\ UNCHANGED dpc
    ELSE /\ out_path' = Append(out_path, DebugText(node[1]))
         /\ UNCHANGED <<display_default, dpc>>

\* lines 77-93: the body of the loop for one node; the unwrap of line 78
\* panics on a path name that is no nul-terminated UCS-2 text
LoopBody(node) ==
    IF as_file_path_media_device_path(node)
    THEN IF to_cstring16(path_name(node)) = None
         THEN dpc' = "panic" /\ UNCHANGED <<out_path, display_default>>
         ELSE LET lowercase == to_lowercase(to_cstring16(path_name(node))[2]) IN
              /\ display_default' = ~IsFallback(lowercase)
              /\ out_path' = Append(out_path, lowercase)
              /\ UNCHANGED dpc
    ELSE /\ out_path' = Append(out_path, DebugText(node[1]))
         /\ UNCHANGED <<display_default, dpc>>

\* lines 76-94: one round of the loop, for a node that lies within the slice
NewNode ==
    /\ dpc = "device_path" /\ ~outside
    /\ NodeInside(buf, cursor) /\ ~AtEnd(buf, cursor)
    /\ LoopBody(NodeAt(buf, cursor))
    /\ nodes' = Append(nodes, NodeAt(buf, cursor))
    /\ cursor' = cursor + NodeLength(buf, cursor)
    /\ UNCHANGED <<buf, description, desc_end_offset, var, outside, entry, enumVars,
                   mainVars, menuVars, chanVars, fwVars>>

\* a file-path node with the given text, and a node of another type
FileNode(t) ==
    <<4, 4, [i \in 1..(2 * Len(t) + 2) |->
                IF i > 2 * Len(t) THEN 0
                ELSE IF i % 2 = 1 THEN t[(i + 1) \div 2] % 256 ELSE t[i \div 2] \div 256]>>
OtherNode(ty) == <<ty, 1, <<>>>>

\* the nodes that stand for what memory outside the device path can hold
GarbageNodes == {OtherNode(1), FileNode(MarkerX64)}

\* line 76: the iterator reads where no node of the device path is. The
\* behaviour is undefined: the process is killed, the read panics, the loop
\* never ends, or the bytes found are taken as a node (one such node stands
\* for any number of them; that the bytes found are taken as the end of the
\* path is part of NewFinish)
NewNodeOutside ==
    /\ dpc = "device_path"
    /\ outside \/ ReadsOutside(buf, cursor)
    /\ \/ /\ dpc' \in {"crash", "panic", "hang"}
          /\ UNCHANGED <<nodes, outside, out_path, display_default>>
       \/ /\ ~outside
          /\ \E g \in GarbageNodes :
                /\ LoopBody(g)
                /\ nodes' = Append(nodes, g)
          /\ outside' = TRUE
    /\ UNCHANGED <<buf, description, desc_end_offset, var, cursor, entry, enumVars,
                   mainVars, menuVars, chanVars, fwVars>>

\* the digits from_str_radix takes in radix 16, by value
HexLower == <<"0", "1", "2", "3", "4", "5", "6", "7", "8", "9", "a", "b", "c", "d", "e", "f">>
HexUpper == <<"0", "1", "2", "3", "4", "5", "6", "7", "8", "9", "A", "B", "C", "D", "E", "F">>

\* char::to_digit(16)
to_digit(c) ==
    IF \E i \in 1..16 : HexLower[i] = c \/ HexUpper[i] = c
    THEN Some((CHOOSE i \in 1..16 : HexLower[i] = c \/ HexUpper[i] = c) - 1)
    ELSE None

\* the value of a sequence of hexadecimal digits
RECURSIVE DigitsValue(_)
DigitsValue(ds) ==
    IF ds = <<>> THEN 0
    ELSE 16 * DigitsValue(SubSeq(ds, 1, Len(ds) - 1)) + to_digit(ds[Len(ds)])[2]

\* a parse that takes decimal digits only
from_str_radix_10(t) ==
    LET digits == IF t # <<>> /\ t[1] = "+" THEN Tail(t) ELSE t IN
    IF digits = <<>> THEN None
    ELSE IF \E i \in 1..Len(digits) : to_digit(digits[i]) = None \/ to_digit(digits[i])[2] > 9 THEN None
    ELSE IF DigitsValue(digits) > 65535 THEN None
    ELSE Some(DigitsValue(digits))

\* line 97: u16::from_str_radix(_, 16): an optional '+', then one or more
\* hexadecimal digits of either case; Err on anything else and on overflow
from_str_radix_16(t) ==
    LET digits == IF t # <<>> /\ t[1] = "+" THEN Tail(t) ELSE t IN
    IF digits = <<>> THEN None
    ELSE IF \E i \in 1..Len(digits) : to_digit(digits[i]) = None THEN None
    ELSE IF DigitsValue(digits) > 65535 THEN None
    ELSE Some(DigitsValue(digits))

\* a name is a sequence of characters, each a one-character string; this
\* one stands for ARABIC-INDIC DIGIT ONE (U+0661), a decimal digit outside
\* ASCII that takes two bytes in UTF-8
ArabicOne == "U+0661"

\* the number of bytes of a character in UTF-8
Utf8Len(c) == IF c = ArabicOne THEN 2 ELSE 1

\* the number of bytes of the first k characters of t
RECURSIVE BytesOf(_, _)
BytesOf(t, k) == IF k = 0 THEN 0 ELSE BytesOf(t, k - 1) + Utf8Len(t[k])

\* line 96: String::split_off(4), which panics (None here) when the text is
\* shorter than 4 bytes or byte 4 is inside a character
split_off_4(t) ==
    IF \E k \in 0..Len(t) : BytesOf(t, k) = 4
    THEN Some(SubSeq(t, (CHOOSE k \in 0..Len(t) : BytesOf(t, k) = 4) + 1, Len(t)))
    ELSE None

\* lines 96-110: the loop is over; the id is parsed from the name and the
\* Entry returned. The loop is over at the end node, and it may be over
\* where the iterator reads outside the device path
NewFinish ==
    /\ dpc = "device_path"
    /\ outside \/ ReadsOutside(buf, cursor) \/ AtEnd(buf, cursor)
    /\ IF split_off_4(var) = None
       THEN dpc' = "panic" /\ UNCHANGED entry
       ELSE LET boot_id == split_off_4(var)[2]
                id == IF from_str_radix_16(boot_id) # None THEN from_str_radix_16(boot_id)[2] ELSE 0
            IN /\ entry' = Some([id |-> id,
                                 id_string |-> boot_id,
                                 description |-> description,
                                 path |-> out_path,
                                 display_default |-> display_default])
               /\ dpc' = "done"
    /\ UNCHANGED <<buf, description, desc_end_offset, var, nodes, cursor, outside, out_path,
                   display_default, enumVars, mainVars, menuVars, chanVars, fwVars>>

-----------------------------------------------------------------------------
(* main before menu(), lines 264-280.                                       *)

Boot == <<"B", "o", "o", "t">>

\* the characters \d matches: the regex is Unicode-aware, so the decimal
\* digits outside ASCII match as well
DecimalDigits == {"0", "1", "2", "3", "4", "5", "6", "7", "8", "9", ArabicOne}

Boot0001 == <<"B", "o", "o", "t", "0", "0", "0", "1">>
Boot0002 == <<"B", "o", "o", "t", "0", "0", "0", "2">>
Boot001A == <<"B", "o", "o", "t", "0", "0", "1", "A">>
BootZZZZ == <<"B", "o", "o", "t", "Z", "Z", "Z", "Z">>
BootOrder == <<"B", "o", "o", "t", "O", "r", "d", "e", "r">>
Boot00012 == <<"B", "o", "o", "t", "0", "0", "0", "1", "2">>
BootArabic == <<"B", "o", "o", "t", ArabicOne, ArabicOne, ArabicOne, ArabicOne>>

\* line 265, line 271: boot_xxxx.is_match for ^Boot\d\d\d\d$
is_match(name) ==
    /\ Len(name) = 8
    /\ SubSeq(name, 1, 4) = Boot
    /\ \A i \in 5..8 : name[i] \in DecimalDigits

\* line 267: the size of main's buffer
MainBufLen == 1024

\* the path names of the file-path nodes of the model: a loader of an
\* installed system, and the fallback loaders of x86-64 (in two spellings),
\* IA32 and AArch64
PathGrub == Codes(<<"\\", "E", "F", "I", "\\", "u", "b", "u", "n", "t", "u", "\\", "g", "r", "u", "b", "x", "6", "4", ".", "e", "f", "i">>)
PathX64 == Codes(<<"\\", "E", "F", "I", "\\", "B", "O", "O", "T", "\\", "B", "O", "O", "T", "X", "6", "4", ".", "E", "F", "I">>)
PathX64Mixed == Codes(<<"\\", "E", "F", "I", "\\", "B", "o", "o", "t", "\\", "b", "o", "o", "t", "x", "6", "4", ".", "e", "f", "i">>)
PathIa32 == Codes(<<"\\", "E", "F", "I", "\\", "B", "O", "O", "T", "\\", "B", "O", "O", "T", "I", "A", "3", "2", ".", "E", "F", "I">>)
PathAa64 == Codes(<<"\\", "E", "F", "I", "\\", "B", "O", "O", "T", "\\", "B", "O", "O", "T", "A", "A", "6", "4", ".", "E", "F", "I">>)
\* \EFI\BOOT\BOOTX64.EF and a capital I with dot above (U+0130), whose
\* lowercase is the two characters i and U+0307
PathX64Dotted == Codes(<<"\\", "E", "F", "I", "\\", "B", "O", "O", "T", "\\", "B", "O", "O", "T", "X", "6", "4", ".", "E", "F">>) \o <<304>>
\* \EFI\, capital alpha and capital sigma (U+0391, U+03A3), \, capital
\* sigma, .EFI: the first sigma ends a word and the second begins one
PathSigma == Codes(<<"\\", "E", "F", "I", "\\">>) \o <<913, 931>> \o Codes(<<"\\">>) \o <<931>> \o Codes(<<".", "E", "F", "I">>)

\* the bytes of a node: type, sub-type, length (low byte first) and data
NodeBytes(node) ==
    <<node[1], node[2], (4 + Len(node[3])) % 256, (4 + Len(node[3])) \div 256>> \o node[3]

\* the bytes of a sequence of nodes
RECURSIVE PathBytes(_)
PathBytes(ns) == IF ns = <<>> THEN <<>> ELSE NodeBytes(Head(ns)) \o PathBytes(Tail(ns))

\* the end node of a device path
EndBytes == <<127, 255, 4, 0>>

\* the content of a boot variable: 4 bytes of attributes, 2 bytes with the
\* length of the device path, the description "A" with its terminator, and
\* the device path
LoadOption(path) ==
    <<1, 0, 0, 0, Len(path) % 256, Len(path) \div 256, 65, 0, 0, 0>> \o path

\* a variable with a hardware node, the loader of an installed system and
\* the end node
ReadBuf == LoadOption(PathBytes(<<OtherNode(1), FileNode(PathGrub)>>) \o EndBytes)

\* a variable whose device path lacks the end node
ReadBufNoEnd == LoadOption(PathBytes(<<OtherNode(1)>>))

\* line 270: get_var_names(), whose failure panics (expect)
MainNames ==
    /\ pc = "enum_start" /\ status = "running"
    /\ \/ pc' = "enum" /\ UNCHANGED status
       \/ pc' = "done" /\ status' = "panic_names"
    /\ UNCHANGED <<choices, choice, mode, menuVars, chanVars, fwVars, decVars>>

\* lines 270-278: one round of the loop over the variable names, up to the
\* call of Entry::new: a name that matches is read into the front of buf,
\* the rest of buf staying as it is; a failed read is printed, where
\* eprintln! panics when stderr cannot be written
MainVar ==
    /\ pc = "enum" /\ status = "running" /\ vi < Len(fwnames)
    /\ LET v == fwnames[vi + 1] IN
       IF is_match(v.name)
       THEN IF v.content # None
            THEN /\ buf' = v.content[2] \o SubSeq(buf, Len(v.content[2]) + 1, Len(buf))
                 /\ var' = v.name /\ dpc' = "start" /\ pc' = "enum_new"
                 /\ description' = <<>> /\ desc_end_offset' = 0
                 /\ nodes' = <<>> /\ cursor' = 0 /\ outside' = FALSE
                 /\ out_path' = <<>> /\ display_default' = FALSE /\ entry' = None
                 /\ UNCHANGED <<vi, diags, status>>
            ELSE /\ \/ diags' = diags + 1 /\ vi' = vi + 1 /\ UNCHANGED <<pc, status>>
                    \/ status' = "panic_eprintln" /\ pc' = "done" /\ UNCHANGED <<vi, diags>>
                 /\ UNCHANGED <<buf, dpc, description, desc_end_offset, newVars>>
       ELSE /\ vi' = vi + 1
            /\ UNCHANGED <<pc, status, diags, buf, dpc, description, desc_end_offset, newVars>>
    /\ UNCHANGED <<choices, choice, mode, fwnames, menuVars, chanVars, fwVars>>

\* lines 274-275: Entry::new has returned and the entry is pushed
MainPush ==
    /\ pc = "enum_new" /\ status = "running" /\ dpc = "done"
    /\ choices' = Append(choices, entry[2])
    /\ vi' = vi + 1 /\ pc' = "enum"
    /\ UNCHANGED <<status, choice, mode, fwnames, diags, menuVars, chanVars, fwVars,
                   buf, dpc, description, desc_end_offset, newVars>>

\* line 274: Entry::new has not returned: the process ends with its panic,
\* is killed, or never gets further
MainNewFails ==
    /\ pc = "enum_new" /\ status = "running" /\ dpc \in {"panic", "crash", "hang"}
    /\ status' = (IF dpc = "panic" THEN "panic_entry" ELSE dpc)
    /\ pc' = "done"
    /\ UNCHANGED <<choices, choice, mode, menuVars, chanVars, fwVars, decVars>>

\* line 282: the loop is over and menu() is called
MainCallMenu ==
    /\ pc = "enum" /\ status = "running" /\ vi = Len(fwnames)
    /\ pc' = "enum_done"
    /\ UNCHANGED <<choices, status, choice, mode, menuVars, chanVars, fwVars, decVars>>

-----------------------------------------------------------------------------
(* The program from the call of menu() on.                                  *)

Init ==
    /\ choices \in EntryLists
    /\ pc = "menu_setup" /\ status = "running"
    /\ chosen = FALSE /\ pos = 0
    /\ menu_items = <<>> /\ all_items = <<>>
    /\ cur_choice = None /\ what_to_display = "Default"
    /\ choice = None /\ mode = None
    /\ queue = <<>> /\ rx_alive = TRUE
    /\ kbd = "idle" /\ pad = "idle"
    /\ nsent = 0 /\ trace = None
    /\ last_ev = None
    /\ bootNext = <<>> /\ writes = <<>> /\ reboots = 0
    /\ buf = <<>> /\ dpc = "idle" /\ description = <<>> /\ desc_end_offset = 0
    /\ var = <<>> /\ nodes = <<>> /\ cursor = 0 /\ outside = FALSE
    /\ out_path = <<>> /\ display_default = FALSE /\ entry = None
    /\ fwnames = <<>> /\ vi = 0 /\ diags = 0

Next ==
    \/ MenuSpawnKbd \/ MenuSpawnPad \/ MenuTerminal \/ MenuRows
    \/ MenuRender \/ MenuRecv \/ MenuRecvDisconnected \/ MenuExit
    \/ KbdRead \/ KbdFail \/ PadOpen \/ PadRead \/ PadFail
    \/ MainArgs \/ MainWrite \/ MainReboot \/ MainPrint
    \/ MainErr \/ MainOk \/ MainPanic

Spec == Init /\ [][Next]_vars

-----------------------------------------------------------------------------
(* The claims about menu(), the channel and main.                           *)

\* the step is rx.recv() returning ev to the match of line 227
RecvStep(ev) == queue # <<>> /\ queue' = Tail(queue) /\ Head(queue) = ev

\* the number of events rx.recv() has returned
Received == nsent - Len(queue)

\* the row of the active view under the cursor, if there is one
RowAtCursor == Get(cur_menu, pos)

\* menu() has returned a value to main
MenuReturned == pc \in {"main_args", "main_write", "main_reboot", "main_print"}

Sources == {"kbd", "pad"}

\* C1: whenever the view is Default and the row under the cursor is the
\* sentinel, a confirm(true) switches the view to Advanced and the menu goes
\* on (it is not ended).
C1_SentinelConfirmSwitches ==
    [][(RecvStep(South(TRUE)) /\ what_to_display = "Default" /\ RowAtCursor = Some(Menu))
        => (what_to_display' = "Advanced" /\ chosen' = FALSE /\ pc' = "menu_render")]_vars

\* C2: in either view, whenever the row under the cursor is a real entry, a
\* confirm(true) ends the menu with exactly that entry tracked, and that
\* entry is what menu() returns.
C2_EntryConfirmReturns ==
    [][/\ (RecvStep(South(TRUE)) /\ RowAtCursor # None /\ RowAtCursor[2][1] = "Entry")
           => (chosen' = TRUE /\ pc' = "menu_exit" /\ cur_choice' = RowAtCursor)
       /\ (pc = "menu_exit" /\ pc' = "main_args") => Some(choice') = RowAtCursor]_vars

\* C3: menu() never returns the sentinel: the loop is left only by a
\* confirm(true) received while the tracked value is not the sentinel, the
\* value main gets is an entry, and main's unreachable!() is never run.
C3_NeverReturnsSentinel ==
    /\ status # "panic_unreachable" /\ pc # "panic_unreachable"
    /\ chosen => (last_ev = Some(South(TRUE)) /\ cur_choice # Some(Menu))
    /\ MenuReturned => (chosen /\ choice[1] = "Entry")
    /\ choice # None => choice[1] = "Entry"

\* C3 witness: main is about to write BootNext for an entry that was chosen
\* in the Advanced view.
C3_Witness ==
    pc = "main_write" /\ choice[1] = "Entry" /\ what_to_display = "Advanced"

\* C4: with an empty entry list the menu has the sentinel as its only row,
\* the Advanced view is empty, and no event ends the menu or makes it abort
\* on an absent tracked value.
C4_EmptyListNeverAborts ==
    choices = <<>> =>
        /\ status # "panic_unwrap" /\ pc # "panic_unwrap"
        /\ chosen = FALSE
        /\ pc \in {"menu_render", "menu_recv"} => (menu_items = <<Menu>> /\ all_items = <<>>)

\* C5: a move down advances the cursor by one and tracks the row there iff
\* the active view has a row at cursor + 1, a move up steps back by one and
\* tracks the row there iff cursor > 0 and the view has a row at cursor - 1;
\* otherwise cursor and tracked value stay, and a cursor that moved is on a
\* row of the active view.
C5_CursorMoves ==
    [][/\ RecvStep(DirectionDown) =>
            IF pos + 1 < Len(cur_menu)
            THEN pos' = pos + 1 /\ cur_choice' = Some(cur_menu[pos + 2])
            ELSE pos' = pos /\ cur_choice' = cur_choice
       /\ RecvStep(DirectionUp) =>
            IF pos > 0 /\ pos - 1 < Len(cur_menu)
            THEN pos' = pos - 1 /\ cur_choice' = Some(cur_menu[pos])
            ELSE pos' = pos /\ cur_choice' = cur_choice
       /\ pos' # pos => (pos' >= 0 /\ pos' < Len(cur_menu) /\ what_to_display' = what_to_display)
      ]_vars

\* C5 witness: in a 3-row Default view, after down, down, up the cursor is 1
\* and the tracked value is row 1.
C5_Witness ==
    /\ what_to_display = "Default" /\ Len(menu_items) = 3
    /\ Received = 3 /\ last_ev = Some(DirectionUp)
    /\ pos = 1 /\ cur_choice = Some(menu_items[2])

\* C7: no input source is dead while the process runs on with the menu
\* waiting for an event.
C7_SourceFailureIsFatal ==
    ~(status = "running" /\ pc = "menu_recv" /\ (kbd = "dead" \/ pad = "dead"))

\* C8: BootNext is written at most once and reboot requested at most once;
\* a write is made only in commit mode after menu() returned an entry, with
\* that entry's id as two little-endian bytes; a reboot is requested only
\* after the write succeeded; a dry run does neither.
C8_WriteOnceThenReboot ==
    /\ Len(writes) <= 1 /\ reboots <= 1
    /\ writes # <<>> =>
          /\ mode = Some("actually-boot")
          /\ chosen /\ ~rx_alive /\ choice[1] = "Entry" /\ Some(choice) = cur_choice
          /\ writes[1].name = "BootNext"
          /\ writes[1].val = <<choice[2].id % 256, choice[2].id \div 256>>
    /\ bootNext # <<>> => (writes # <<>> /\ writes[1].ok /\ bootNext = writes[1].val)
    /\ reboots > 0 => (writes # <<>> /\ writes[1].ok /\ bootNext = writes[1].val)
    /\ mode # Some("actually-boot") => (writes = <<>> /\ reboots = 0 /\ bootNext = <<>>)

\* C8 witness: a commit run that wrote BootNext and rebooted.
C8_Witness ==
    status = "rebooted" /\ reboots = 1 /\ Len(writes) = 1 /\ bootNext # <<>>

\* the ways the process ends in a failure
Fatal == {"exit_err", "panic_unwrap", "panic_write", "panic_unreachable",
          "panic_println", "panic_args", "panic_spawn"}

\* C9: a run that ends in a failure leaves BootNext unset, and no reboot is
\* requested after a failed write.
C9_FatalLeavesFirmwareUnmodified ==
    /\ status \in Fatal => bootNext = <<>>
    /\ (writes # <<>> /\ ~writes[1].ok) => reboots = 0

\* an entry that is a default candidate
IsDefault(e) == e.display_default

\* menu() has built its row lists and has not returned
InMenuLoop == pc \in {"menu_render", "menu_recv", "menu_exit"}

\* C12: at menu entry the view is Default and the cursor 0; the Default rows
\* are the default candidates in their order followed by one sentinel, the
\* Advanced rows are all entries in their order with no sentinel, and neither
\* list changes afterwards.
C12_RowLists ==
    (InMenuLoop \/ MenuReturned) =>
        /\ Len(menu_items) = Len(SelectSeq(choices, IsDefault)) + 1
        /\ menu_items[Len(menu_items)] = Menu
        /\ \A i \in 1..(Len(menu_items) - 1) :
              menu_items[i] = <<"Entry", SelectSeq(choices, IsDefault)[i]>>
        /\ Len(all_items) = Len(choices)
        /\ \A i \in 1..Len(choices) : all_items[i] = <<"Entry", choices[i]>>
        /\ Received = 0 => (what_to_display = "Default" /\ pos = 0)

\* C12 witness: events have been received and the Default rows are one of
\* two entries and the sentinel.
C12_Witness ==
    /\ pc = "menu_recv" /\ Received >= 2
    /\ Len(choices) = 2 /\ Len(menu_items) = 2 /\ ~choices[1].display_default

\* menu() was left by a returned error or by a panic
MenuFailed == pc \in {"main_err", "panic_println", "panic_unwrap"}

\* C17: the view never goes back from Advanced; it changes only on a
\* confirm(true) received with the sentinel tracked; and menu() is left only
\* after a terminating confirm or by a failure.
C17_ViewOnlyAdvances ==
    [][/\ what_to_display = "Advanced" => what_to_display' = "Advanced"
       /\ what_to_display' # what_to_display =>
             (RecvStep(South(TRUE)) /\ cur_choice = Some(Menu) /\ what_to_display = "Default")
       /\ (InMenuLoop /\ ~InMenuLoop') =>
             \/ chosen /\ last_ev = Some(South(TRUE)) /\ pc = "menu_exit"
             \/ MenuFailed'
      ]_vars

\* C17 witness: in the Advanced view a further confirm(true) was received and
\* the view is still Advanced.
C17_Witness ==
    /\ what_to_display = "Advanced" /\ last_ev = Some(South(TRUE))
    /\ Received >= 3 /\ ~chosen

\* the events menu() acts on
ActedOn == {South(TRUE), DirectionDown, DirectionUp}

\* C18: a received event other than move-down, move-up and confirm(true)
\* leaves cursor, tracked value, view and chosen as they were; and an event
\* sent while the controller thread is not in its loop, which then is the
\* keyboard's, is confirm(true), move-down or move-up, a terminal event that
\* maps to none of them sending nothing.
C18_OtherEventsChangeNothing ==
    [][/\ (queue # <<>> /\ queue' = Tail(queue) /\ Head(queue) \notin ActedOn) =>
             UNCHANGED <<pos, cur_choice, what_to_display, chosen>>
       /\ (nsent' # nsent /\ pad # "run") => queue'[Len(queue')] \in ActedOn
       /\ \A e \in TermEvents :
             e \notin {<<"Key", "Enter">>, <<"Key", "Down">>, <<"Key", "Up">>} => KbdMap(e) = None
      ]_vars

\* C18 witness: a confirm(false) was received with an entry tracked, and the
\* menu goes on.
C18_Witness ==
    /\ last_ev = Some(South(FALSE)) /\ pc = "menu_render"
    /\ cur_choice # None /\ cur_choice[2][1] = "Entry" /\ ~chosen

\* C19: while menu() draws and waits, the cursor is on a row of the active
\* view.
C19_CursorOnRow ==
    pc \in {"menu_render", "menu_recv"} => (pos >= 0 /\ pos < Len(cur_menu))

\* C20: whenever the loop has ended with an entry tracked, and whenever
\* menu() has returned, that entry is the row of the active view under the
\* cursor.
C20_ReturnsRowAtCursor ==
    /\ (chosen /\ cur_choice # None) => cur_choice = RowAtCursor
    /\ MenuReturned => Some(choice) = RowAtCursor

\* C20 witness: menu() returned an entry chosen in the Advanced view after
\* the switch.
C20_Witness ==
    /\ pc = "main_print" /\ what_to_display = "Advanced"
    /\ pos < Len(all_items) /\ choice = all_items[pos + 1]

-----------------------------------------------------------------------------
(* menu() and main with the history of the channel kept.                    *)

\* the entry lists of the runs whose history is kept: no entry, one default
\* candidate, one entry that is none
FifoLists == {<<>>, <<MkEntry(1, TRUE)>>, <<MkEntry(1, FALSE)>>}

InitFifo ==
    /\ choices \in FifoLists
    /\ pc = "menu_setup" /\ status = "running"
    /\ chosen = FALSE /\ pos = 0
    /\ menu_items = <<>> /\ all_items = <<>>
    /\ cur_choice = None /\ what_to_display = "Default"
    /\ choice = None /\ mode = None
    /\ queue = <<>> /\ rx_alive = TRUE
    /\ kbd = "idle" /\ pad = "idle"
    /\ nsent = 0 /\ trace = Some(NoHistory)
    /\ last_ev = None
    /\ bootNext = <<>> /\ writes = <<>> /\ reboots = 0
    /\ buf = <<>> /\ dpc = "idle" /\ description = <<>> /\ desc_end_offset = 0
    /\ var = <<>> /\ nodes = <<>> /\ cursor = 0 /\ outside = FALSE
    /\ out_path = <<>> /\ display_default = FALSE /\ entry = None
    /\ fwnames = <<>> /\ vi = 0 /\ diags = 0

SpecFifo == InitFifo /\ [][Next]_vars

\* the numbers of the sends of one source not yet received, in send order
QueuedNumbers(s) ==
    LET FromS(m) == m.src = s
        ms == SelectSeq(trace[2].queued, FromS)
    IN [i \in 1..Len(ms) |-> ms[i].n]

\* C6: the channel holds the events sent and not yet received, in the order
\* they were sent, and rx.recv() returns the oldest: so per source, the
\* events not yet received are the ones numbered right after the ones
\* received, none missing and none twice, and the menu receives each source's
\* events in that source's order.
C6_PerSourceFifo ==
    /\ queue = [i \in 1..Len(trace[2].queued) |-> trace[2].queued[i].ev]
    /\ nsent = SentBy("kbd") + SentBy("pad")
    /\ \A s \in Sources :
          QueuedNumbers(s) = [i \in 1..(SentBy(s) - trace[2].recv[s]) |-> trace[2].recv[s] + i]

\* C6 witness: a pad event is queued ahead of the keyboard's second event,
\* the keyboard's first having been received: the sources interleave.
C6_Witness ==
    /\ trace[2].recv.kbd = 1 /\ trace[2].recv.pad = 0
    /\ Len(queue) = 2
    /\ trace[2].queued[1].src = "pad" /\ trace[2].queued[2].src = "kbd"

-----------------------------------------------------------------------------
(* Entry::new on its own, over every buffer of the model.                   *)

\* what follows the body of a buffer: nothing, the end node, or a hardware
\* node and the end node
PathTails == {<<>>, EndBytes, NodeBytes(OtherNode(1)) \o EndBytes}

\* the buffers: every header-sized prefix cut short, and a zeroed header
\* followed by every body of at most MaxBodyLen bytes and a tail
Buffers ==
    {[i \in 1..n |-> 0] : n \in 0..(HeaderLen - 1)}
    \cup {[i \in 1..HeaderLen |-> 0] \o body \o tail :
             body \in SeqsUpTo(BodyBytes, MaxBodyLen), tail \in PathTails}

InitDecode ==
    /\ buf \in Buffers
    /\ var = Boot0001
    /\ dpc = "start" /\ description = <<>> /\ desc_end_offset = 0
    /\ nodes = <<>> /\ cursor = 0 /\ outside = FALSE
    /\ out_path = <<>> /\ display_default = FALSE /\ entry = None
    /\ fwnames = <<>> /\ vi = 0 /\ diags = 0
    /\ choices = <<>>
    /\ pc = "done" /\ status = "running"
    /\ chosen = FALSE /\ pos = 0
    /\ menu_items = <<>> /\ all_items = <<>>
    /\ cur_choice = None /\ what_to_display = "Default"
    /\ choice = None /\ mode = None
    /\ queue = <<>> /\ rx_alive = FALSE
    /\ kbd = "idle" /\ pad = "idle"
    /\ nsent = 0 /\ trace = None
    /\ last_ev = None
    /\ bootNext = <<>> /\ writes = <<>> /\ reboots = 0

NextDecode == NewDescription \/ NewDevicePath \/ NewNode \/ NewNodeOutside \/ NewFinish

SpecDecode == InitDecode /\ [][NextDecode]_vars

\* C10: Entry::new never slices outside its buffer: it does not panic, and
\* the device-path offset 6 + (bytes char16_to_string reports) is at most
\* the length of the buffer.
C10_OffsetWithinBuffer ==
    /\ dpc # "panic"
    /\ dpc \in {"described", "device_path"} => desc_end_offset <= Len(buf)

\* the bytes of the buffer after the header and their k-th code unit, low
\* byte first
Body == SubSeq(buf, HeaderLen + 1, Len(buf))
UnitAt(k) == Body[2 * k - 1] + 256 * Body[2 * k]

\* the number of code units before the first zero unit or the end
NumUnits ==
    CHOOSE n \in 0..(Len(Body) \div 2) :
        /\ \A k \in 1..n : UnitAt(k) # 0
        /\ n = Len(Body) \div 2 \/ UnitAt(n + 1) = 0

\* units k and k + 1 are a high and a low surrogate
PairAt(k) ==
    /\ k >= 1 /\ k < NumUnits
    /\ UnitAt(k) >= 55296 /\ UnitAt(k) <= 56319
    /\ UnitAt(k + 1) >= 56320 /\ UnitAt(k + 1) <= 57343

\* unit k is the low half of a pair (a low half is never a high half, so
\* pairs do not overlap)
SecondOfPair(k) == k > 1 /\ PairAt(k - 1)

\* the number of units before unit k that are the low half of a pair
PairsBefore(k) == Cardinality({j \in 1..(k - 1) : SecondOfPair(j)})

\* the description has been decoded
Described == dpc # "start" /\ Len(buf) >= HeaderLen

\* C15 as stated: the units are taken low byte first up to the first zero
\* unit, and every unit gives one character: itself when ASCII, a space
\* otherwise.
C15_EachUnitOneChar ==
    Described =>
        /\ Len(description) = NumUnits
        /\ \A k \in 1..NumUnits :
              description[k] = IF UnitAt(k) < 128 THEN UnitAt(k) ELSE 32

\* C15 amended: the units are taken low byte first up to the first zero unit;
\* an ASCII unit gives itself, a high surrogate followed by a low surrogate
\* gives one space for the two, and any other unit outside ASCII gives one
\* space.
C15_UnitsToChars ==
    Described =>
        /\ Len(description) = NumUnits - PairsBefore(NumUnits + 1)
        /\ \A k \in 1..NumUnits :
              ~SecondOfPair(k) =>
                  description[k - PairsBefore(k)] = IF UnitAt(k) < 128 THEN UnitAt(k) ELSE 32

\* C15 witness: 'A', a surrogate pair and no terminator decode to "A ".
C15_Witness ==
    /\ dpc = "described" /\ Len(Body) = 6 /\ NumUnits = 3
    /\ UnitAt(1) = 65 /\ PairAt(2) /\ description = <<65, 32>>

-----------------------------------------------------------------------------
(* Entry::new over every device path of the model.                          *)

\* a file-path node whose path name holds a surrogate: 'A', 0xD800, 0
BadFileNode == <<4, 4, <<65, 0, 0, 216, 0, 0>>>>

\* the nodes a device path of the model is made of
PathNodes == {FileNode(PathGrub), FileNode(PathX64), FileNode(PathX64Mixed),
              FileNode(PathIa32), FileNode(PathAa64), FileNode(PathX64Dotted),
              FileNode(PathSigma), OtherNode(1), BadFileNode}

\* the buffers: up to MaxNodes nodes, with the end node or without it
PathBuffers ==
    {LoadOption(PathBytes(ns) \o e) : ns \in SeqsUpTo(PathNodes, MaxNodes), e \in {EndBytes, <<>>}}

InitPath ==
    /\ buf \in PathBuffers
    /\ var = Boot0001
    /\ dpc = "start" /\ description = <<>> /\ desc_end_offset = 0
    /\ nodes = <<>> /\ cursor = 0 /\ outside = FALSE
    /\ out_path = <<>> /\ display_default = FALSE /\ entry = None
    /\ fwnames = <<>> /\ vi = 0 /\ diags = 0
    /\ choices = <<>>
    /\ pc = "done" /\ status = "running"
    /\ chosen = FALSE /\ pos = 0
    /\ menu_items = <<>> /\ all_items = <<>>
    /\ cur_choice = None /\ what_to_display = "Default"
    /\ choice = None /\ mode = None
    /\ queue = <<>> /\ rx_alive = FALSE
    /\ kbd = "idle" /\ pad = "idle"
    /\ nsent = 0 /\ trace = None
    /\ last_ev = None
    /\ bootNext = <<>> /\ writes = <<>> /\ reboots = 0

SpecPath == InitPath /\ [][NextDecode]_vars

\* the positions of the file-path nodes among the nodes taken so far
FileNodes == {k \in 1..Len(nodes) : nodes[k][1] = 4 /\ nodes[k][2] = 4}

\* the last of them
LastFile == CHOOSE k \in FileNodes : \A j \in FileNodes : j <= k

\* the text of a file-path node: its 16-bit units without the final zero
TextOf(node) ==
    [k \in 1..(Len(node[3]) \div 2 - 1) |-> node[3][2 * k - 1] + 256 * node[3][2 * k]]

\* the lowercase of a path name of the model, written out: the name ending
\* in U+0130 becomes the marker of line 82 and U+0307; in the name with the
\* two capital sigmas the first becomes the final sigma (U+03C2) and the
\* second the small sigma (U+03C3); in the other names, which are ASCII, the
\* letters A-Z become a-z
LowerOf(t) ==
    IF t = PathX64Dotted THEN MarkerX64 \o <<775>>
    ELSE IF t = PathSigma
    THEN <<92, 101, 102, 105, 92, 945, 962, 92, 963, 46, 101, 102, 105>>
    ELSE [i \in 1..Len(t) |-> IF t[i] >= 65 /\ t[i] <= 90 THEN t[i] + 32 ELSE t[i]]

\* a text has one of the three markers of lines 82-84 in it
HasMarker(t) ==
    \E m \in {MarkerX64, MarkerIa, MarkerAa64} :
        \E i \in 1..Len(t) :
            i + Len(m) - 1 <= Len(t) /\ \A k \in 1..Len(m) : t[i + k - 1] = m[k]

\* C13: after any number of nodes display_default is false when none of them
\* is a file-path node, and otherwise false iff the lowercase of the text of
\* the last file-path node contains one of the markers of lines 82-84; every
\* node has added one segment, in node order: the lowercase of its text for a
\* file-path node, the name of its type for another; the nodes are the ones
\* the buffer holds; and the Entry carries both results.
C13_LastFileNodeDecides ==
    /\ dpc \in {"device_path", "done"} =>
          /\ display_default =
                IF FileNodes = {} THEN FALSE
                ELSE ~HasMarker(LowerOf(TextOf(nodes[LastFile])))
          /\ Len(out_path) = Len(nodes)
          /\ \A k \in 1..Len(nodes) :
                out_path[k] = IF k \in FileNodes THEN LowerOf(TextOf(nodes[k]))
                              ELSE DebugText(nodes[k][1])
          /\ ~outside => PathBytes(nodes) = SubSeq(buf, desc_end_offset + 1, cursor)
    /\ dpc = "done" =>
          /\ entry[2].path = out_path /\ entry[2].display_default = display_default
          /\ buf = LoadOption(PathBytes(<<FileNode(PathGrub), FileNode(PathX64Mixed)>>) \o EndBytes)
                => (~entry[2].display_default /\ Len(entry[2].path) = 2)
          /\ buf = LoadOption(PathBytes(<<FileNode(PathX64Dotted)>>) \o EndBytes)
                => (~entry[2].display_default /\ entry[2].path = <<MarkerX64 \o <<775>>>>)
          /\ buf = LoadOption(PathBytes(<<FileNode(PathSigma)>>) \o EndBytes)
                => (entry[2].display_default /\ Len(entry[2].path[1]) = 13)

\* C13 witness: a fallback loader, a node of another kind and then a real
\* loader, all read from the buffer: the entry is a default candidate with
\* three path segments.
C13_Witness ==
    /\ dpc = "done" /\ ~outside /\ AtEnd(buf, cursor)
    /\ nodes = <<FileNode(PathX64), OtherNode(1), FileNode(PathGrub)>>
    /\ entry[2].display_default /\ Len(entry[2].path) = 3

\* C14: a device path whose only file-path node names the fallback loader of
\* x86-64, IA32 or AArch64, in any case, gives display_default = false; one
\* whose only file-path node names none of them gives true.
C14_FallbackLoaders ==
    (dpc = "done" /\ ~outside /\ Cardinality(FileNodes) = 1) =>
        LET t == TextOf(nodes[LastFile]) IN
        /\ t \in {PathX64, PathX64Mixed, PathIa32, PathAa64} => ~entry[2].display_default
        /\ t = PathGrub => entry[2].display_default

-----------------------------------------------------------------------------
(* Entry::new over every variable name of the model.                        *)

\* the characters the suffixes of the model are made of
IdChars == {"0", "1", "A", "f", "Z", "+"}

\* the variable names: "Boot" and a suffix of at most MaxSuffixLen
\* characters, names shorter than 4 bytes, and names with a character that
\* takes more than one byte
VarNames ==
    {Boot \o t : t \in SeqsUpTo(IdChars, MaxSuffixLen)}
    \cup {<<>>, <<"B">>, <<"B", "o", "o">>, <<"B", "o", "o", ArabicOne>>, BootArabic}

InitId ==
    /\ var \in VarNames
    /\ buf \in (IF var \in {Boot001A, BootZZZZ} THEN {ReadBuf, ReadBufNoEnd} ELSE {ReadBuf})
    /\ dpc = "start" /\ description = <<>> /\ desc_end_offset = 0
    /\ nodes = <<>> /\ cursor = 0 /\ outside = FALSE
    /\ out_path = <<>> /\ display_default = FALSE /\ entry = None
    /\ fwnames = <<>> /\ vi = 0 /\ diags = 0
    /\ choices = <<>>
    /\ pc = "done" /\ status = "running"
    /\ chosen = FALSE /\ pos = 0
    /\ menu_items = <<>> /\ all_items = <<>>
    /\ cur_choice = None /\ what_to_display = "Default"
    /\ choice = None /\ mode = None
    /\ queue = <<>> /\ rx_alive = FALSE
    /\ kbd = "idle" /\ pad = "idle"
    /\ nsent = 0 /\ trace = None
    /\ last_ev = None
    /\ bootNext = <<>> /\ writes = <<>> /\ reboots = 0

SpecId == InitId /\ [][NextDecode]_vars

\* the value of a character as a hexadecimal digit, -1 when it is none
IdDigit(c) ==
    CASE c = "0" -> 0 [] c = "1" -> 1 [] c = "A" -> 10 [] c = "f" -> 15 [] OTHER -> -1

\* the number a text of hexadecimal digits denotes
RECURSIVE IdNumber(_)
IdNumber(t) ==
    IF t = <<>> THEN 0 ELSE IdDigit(t[1]) * 16 ^ (Len(t) - 1) + IdNumber(Tail(t))

\* the digits of a suffix: the suffix without one leading '+'
IdDigits(t) == IF t # <<>> /\ t[1] = "+" THEN Tail(t) ELSE t

\* a suffix is a 16-bit hexadecimal number: one or more hexadecimal digits,
\* in either case, after at most one '+', with a value below 2^16
IsHex16(t) ==
    /\ IdDigits(t) # <<>>
    /\ \A i \in 1..Len(IdDigits(t)) : IdDigit(IdDigits(t)[i]) >= 0
    /\ IdNumber(IdDigits(t)) <= 65535

\* the name is "Boot" and a suffix
HasBootPrefix == Len(var) >= 4 /\ SubSeq(var, 1, 4) = Boot

\* C16: for the name "Boot" + suffix the Entry has id_string = suffix and
\* id = the base-16 value of the suffix when the suffix is a 16-bit
\* hexadecimal number, else 0; "Boot001A" gives 26 and "001A", "BootZZZZ"
\* gives 0 and "ZZZZ"; and Entry::new returns for every such name.
C16_IdFromSuffix ==
    /\ (dpc = "done" /\ HasBootPrefix) =>
          LET suffix == SubSeq(var, 5, Len(var)) IN
          /\ entry[2].id_string = suffix
          /\ entry[2].id = IF IsHex16(suffix) THEN IdNumber(IdDigits(suffix)) ELSE 0
          /\ var = Boot001A => entry[2].id = 26 /\ entry[2].id_string = <<"0", "0", "1", "A">>
          /\ var = BootZZZZ => entry[2].id = 0 /\ entry[2].id_string = <<"Z", "Z", "Z", "Z">>
    /\ (HasBootPrefix /\ buf = ReadBuf) => dpc \in {"start", "described", "device_path", "done"}

\* C16 witness: Entry::new has returned for "Boot001A" with id 0x1A.
C16_Witness ==
    /\ dpc = "done" /\ var = Boot001A
    /\ entry[2].id = 26 /\ entry[2].id_string = <<"0", "0", "1", "A">>

-----------------------------------------------------------------------------
(* main up to the call of menu(), over every enumeration of the model.      *)

\* the names the firmware of the model enumerates
EnumNames == {Boot0001, Boot0002, Boot001A, BootOrder, Boot00012, BootArabic}

\* what reading a variable gives: an error, or its content
Contents == {None, Some(ReadBuf), Some(ReadBufNoEnd)}

\* the enumerations: up to MaxVars variables with different names, each
\* with the outcome of its read
Enumerations ==
    {e \in SeqsUpTo([name : EnumNames, content : Contents], MaxVars) :
        \A i, j \in 1..Len(e) : i # j => e[i].name # e[j].name}

InitEnum ==
    /\ fwnames \in Enumerations
    /\ vi = 0 /\ diags = 0 /\ choices = <<>>
    /\ pc = "enum_start" /\ status = "running"
    /\ buf = [i \in 1..MainBufLen |-> 0] /\ var = <<>>
    /\ dpc = "idle" /\ description = <<>> /\ desc_end_offset = 0
    /\ nodes = <<>> /\ cursor = 0 /\ outside = FALSE
    /\ out_path = <<>> /\ display_default = FALSE /\ entry = None
    /\ chosen = FALSE /\ pos = 0
    /\ menu_items = <<>> /\ all_items = <<>>
    /\ cur_choice = None /\ what_to_display = "Default"
    /\ choice = None /\ mode = None
    /\ queue = <<>> /\ rx_alive = FALSE
    /\ kbd = "idle" /\ pad = "idle"
    /\ nsent = 0 /\ trace = None
    /\ last_ev = None
    /\ bootNext = <<>> /\ writes = <<>> /\ reboots = 0

NextEnum ==
    \/ MainNames \/ MainVar \/ MainPush \/ MainNewFails \/ MainCallMenu
    \/ NewDescription \/ NewDevicePath \/ NewNode \/ NewNodeOutside \/ NewFinish

SpecEnum == InitEnum /\ [][NextEnum]_vars

\* a name is "Boot" followed by exactly four hexadecimal digits 0-9, A-F
IsBootHex4(name) ==
    /\ Len(name) = 8
    /\ SubSeq(name, 1, 4) = Boot
    /\ \A i \in 5..8 : \E d \in 1..16 : HexUpper[d] = name[i]

\* the enumerated variables with such a name whose read succeeded / failed
ReadBootVars == SelectSeq(fwnames, LAMBDA v : IsBootHex4(v.name) /\ v.content # None)
FailedBootVars == SelectSeq(fwnames, LAMBDA v : IsBootHex4(v.name) /\ v.content = None)

\* C11: when main calls menu() the entry list is, in order, one entry for
\* every enumerated variable named "Boot" + four hexadecimal digits whose
\* read succeeded, and one diagnostic was printed for every such variable
\* whose read failed.
C11_EntriesAreBootVariables ==
    pc = "enum_done" =>
        /\ Len(choices) = Len(ReadBootVars)
        /\ \A k \in 1..Len(ReadBootVars) :
              k <= Len(choices) => choices[k].id_string = SubSeq(ReadBootVars[k].name, 5, 8)
        /\ diags = Len(FailedBootVars)

=============================================================================
